---- MODULE Spec2Model ----
(***************************************************************************)
(* Task orchestration core of the bot: core/process_manager.py (queue,     *)
(* gate semaphore, executor, retry controller), core/event_bus.py          *)
(* (publish/subscribe registry and dispatch) and core/db/process_log_db.py *)
(* (durable task log).                                                     *)
(*                                                                         *)
(* Strings are modelled as sequences of lexical tokens: a token is a       *)
(* word, or one of the characters the code tests for (":", "[", " ",       *)
(* TAB).  md5 is modelled as injective on the text it is given, so a       *)
(* task_id is that text.  One asyncio step (the code between two           *)
(* suspension points of a coroutine) is one action.                        *)
(***************************************************************************)
EXTENDS Integers, Sequences, FiniteSets, TLC

\* ---- program constants (process_manager.py:42-45) ----
MAX_CONCURRENT_TASKS == 2
TASK_MAX_RETRIES == 3

\* asyncio.Queue() (process_manager.py:37): maxsize 0, an unbounded queue
QUEUE_MAXSIZE == 0

\* ---- bounds of the model ----
MaxTasks == 3          \* Spec: enqueue_script calls in one behaviour, retries included
MaxRetries == 2        \* Spec: largest explicit retries_left a caller passes
MaxTasksBus == 2       \* SpecBus: enqueue_script calls in one behaviour
MaxRetriesBus == 1     \* SpecBus: largest explicit retries_left a caller passes
MaxHandlers == 2       \* SpecBus: handlers subscribed per event type, both kinds together
MaxTasksIds == 2       \* SpecIds: enqueue_script calls in one behaviour
MaxTasksLive == 3      \* SpecLive: enqueue_script calls in one behaviour, retries included
MaxRetriesLive == 1    \* SpecLive: largest explicit retries_left a caller passes
MaxTasksFault == 3     \* SpecFault: enqueue_script calls in one behaviour, retries included
MaxRetriesFault == 1   \* SpecFault: largest explicit retries_left a caller passes
MaxSubs == 2           \* SpecReg: handlers in one list of the registry
MaxTasksReinit == 3    \* SpecReinit: enqueue_script calls in one behaviour
MaxInits == 2          \* SpecReinit: calls of init_process_manager in one behaviour
MaxTasksDyn == 1       \* SpecDyn: enqueue_script calls in one behaviour
MaxSubsDyn == 3        \* SpecDyn: handlers in one list of the registry
MaxTasksArgs == 2      \* SpecArgs: enqueue_script calls in one behaviour

None == <<"<None>">>   \* Python's None where a string could stand
NoneHandler == 0       \* Python's None where a handler could stand
NoRetries == -1000     \* retries_left=None in a call of enqueue_script
TAB == "\t"
EventTypes == {"task_result", "task_error"}

\* ---- inputs ----
ScriptPaths == { <<"s">> }
\* bot.py:120-123 passes [lat, lon, user_id]; the unit tests pass [user_id]
ArgLists == { << <<"a">>, <<"b">>, <<"u">> >> }
ArgListsBus == { << <<"7">> >> }
\* callers with one argument and callers with three
ArgListsArgs == ArgListsBus \cup ArgLists
\* what a child prints on stdout, as a sequence of lines
Outputs == { << >>, << <<"MESSAGE", ":", "hello">> >> }
OutputsBus == { << >>,
                << <<"[", "dbg", "]", ":", "x">>, <<" ", "K", ":", "v">> >>,
                << <<"task_id", ":", "forged">>, <<"user_id", ":", "other">>,
                   <<" ", "x">>, <<"K", ":", "early">>,
                   <<"K", " ", ":", " ", "v", ":", "w">>, <<TAB, "T", ":", "v">> >> }
\* clock readings: 1 when the clock has moved since the last task_id was made
ClockSteps == {1}
\* ['ab', 'c'] and ['a', 'bc']: the same text once joined (line 77)
ArgListsIds == { << <<"a", "b">>, <<"c">> >>, << <<"a">>, <<"b", "c">> >> }
\* datetime.utcnow() read twice within its resolution gives one reading: 0
ClockStepsIds == {0, 1}
\* handler objects the callers of SpecReg subscribe and unsubscribe
HandlersReg == {1, 2}

VARIABLES sync_handlers, async_handlers, semaphore, sem_value, loops,
          TASK_QUEUE, TASK_STATUS, TASK_RETRIES, task_log, tasks, now,
          submitted, emitted, dequeued, enq_at_full, bus_call

vars == <<sync_handlers, async_handlers, semaphore, sem_value, loops,
          TASK_QUEUE, TASK_STATUS, TASK_RETRIES, task_log, tasks, now,
          submitted, emitted, dequeued, enq_at_full, bus_call>>

\* ---- small helpers ----
Range(s) == { s[i] : i \in 1..Len(s) }

RECURSIVE Flatten(_)
\* ''.join(args)
Flatten(ss) == IF ss = <<>> THEN <<>> ELSE Head(ss) \o Flatten(Tail(ss))

IsSpace(c) == c \in {" ", TAB}

RECURSIVE LStrip(_)
LStrip(s) == IF s # <<>> /\ IsSpace(Head(s)) THEN LStrip(Tail(s)) ELSE s

RECURSIVE RStrip(_)
RStrip(s) == IF s # <<>> /\ IsSpace(s[Len(s)]) THEN RStrip(SubSeq(s, 1, Len(s) - 1)) ELSE s

\* str.strip()
Strip(s) == RStrip(LStrip(s))

\* position of the first ":" of a line that has one
FirstColon(line) == CHOOSE i \in 1..Len(line) :
                       line[i] = ":" /\ \A j \in 1..(i - 1) : line[j] # ":"

\* the test of process_manager.py:240
IsCandidate(line) == /\ ":" \in Range(line)
                     /\ ~(line # <<>> /\ line[1] = "[")
                     /\ ~(line # <<>> /\ line[1] = " ")

RECURSIVE ParseInto(_, _)
ParseInto(parsed, lines) ==
  IF lines = <<>> THEN parsed
  ELSE LET line == Head(lines) IN
       IF IsCandidate(line)
       THEN LET c == FirstColon(line)
                key == Strip(SubSeq(line, 1, c - 1))
                value == Strip(SubSeq(line, c + 1, Len(line)))
            IN ParseInto((key :> value) @@ parsed, Tail(lines))
       ELSE ParseInto(parsed, Tail(lines))

\* _parse_script_output: the dict of KEY:VALUE lines; <<>> is the empty dict
EmptyDict == <<>>
_parse_script_output(output) == ParseInto(EmptyDict, output)

\* dict[key] = value
DictSet(d, key, value) == (key :> value) @@ d

\* a user_id taken from the first argument
UserIdOfFirstArg(args) == IF Len(args) >= 1 THEN args[1] ELSE None

\* args[2] if len(args) >= 3 else None
UserIdOf(args) == IF Len(args) >= 3 THEN args[3] ELSE None

\* hashlib.md5(f"{script_path}{''.join(args)}{timestamp}").hexdigest()
TaskIdOf(script_path, args, ts) == script_path \o Flatten(args) \o <<ToString(ts)>>

\* ---- core/db/process_log_db.py: the durable log, one row per task_id ----

\* INSERT of a new row; a second INSERT of the same PRIMARY KEY raises
\* sqlite3.IntegrityError, which the function catches: the row is kept
log_task_start(db, task_id, script_path, args) ==
  IF task_id \in DOMAIN db THEN db
  ELSE (task_id :> [script_path |-> script_path, arguments |-> args,
                    status |-> "running", error_message |-> None,
                    finishes |-> 0]) @@ db

\* UPDATE ... WHERE task_id = ?; finishes counts the updates of the row
log_task_finish(db, task_id, status, error) ==
  IF task_id \in DOMAIN db
  THEN [db EXCEPT ![task_id].status = status,
                  ![task_id].error_message = error,
                  ![task_id].finishes = @ + 1]
  ELSE db

\* ---- core/event_bus.py ----

\* subscribe_async: append to the list of the type; a None handler is ignored
subscribe_async(reg, event_type, handler) ==
  IF handler = NoneHandler THEN reg
  ELSE [reg EXCEPT ![event_type] = Append(@, handler)]

\* subscribe: append to the list of the type
subscribe(reg, event_type, handler) ==
  [reg EXCEPT ![event_type] = Append(@, handler)]

EmptyRegistry == [t \in EventTypes |-> <<>>]

RECURSIVE RemoveAll(_, _)
RemoveAll(list, handler) ==
  IF list = <<>> THEN <<>>
  ELSE IF Head(list) = handler THEN RemoveAll(Tail(list), handler)
       ELSE <<Head(list)>> \o RemoveAll(Tail(list), handler)

RECURSIVE ListRemove(_, _)
\* list.remove(x): the first item equal to x goes
ListRemove(list, handler) ==
  IF list = <<>> THEN <<>>
  ELSE IF Head(list) = handler THEN Tail(list)
       ELSE <<Head(list)>> \o ListRemove(Tail(list), handler)

\* an unsubscribe that drops every subscription of the handler
unsubscribe_async_all(reg, event_type, handler) ==
  [reg EXCEPT ![event_type] = RemoveAll(@, handler)]

\* unsubscribe_async: list.remove(handler) on the list of the type; the
\* ValueError of a handler that is not in it is caught and only logged
unsubscribe_async(reg, event_type, handler) ==
  [reg EXCEPT ![event_type] = ListRemove(@, handler)]

RECURSIVE CallsOfList(_, _)
\* a loop over a handler list that calls each handler in turn inside
\* try/except
CallsOfList(kind, list) ==
  IF list = <<>> THEN <<>>
  ELSE <<[kind |-> kind, handler |-> Head(list)]>> \o CallsOfList(kind, Tail(list))

\* an emit_event_sync that goes on to the asynchronous handlers
emit_event_sync_with_async(sync_reg, async_reg, event_type, raises) ==
  [calls |-> CallsOfList("sync", sync_reg[event_type])
               \o CallsOfList("async", async_reg[event_type]),
   raised |-> raises, escaped |-> FALSE]

\* emit_event_sync: the calls it makes and whether an exception leaves it;
\* raises are the positions of the synchronous handlers that raise
emit_event_sync(sync_reg, async_reg, event_type, raises) ==
  [calls |-> CallsOfList("sync", sync_reg[event_type]),
   raised |-> raises, escaped |-> FALSE]

\* history: the last call of subscribe, subscribe_async, unsubscribe_async
\* or emit_event_sync, with the registries it found
NoCall == [op |-> "none", type |-> "none", handler |-> NoneHandler, calls |-> <<>>,
           raised |-> {}, escaped |-> FALSE,
           before |-> <<EmptyRegistry, EmptyRegistry>>]

RECURSIVE SubscribedAsync(_)
\* the registry after n calls of subscribe_async for each event type, with
\* handlers of their own for each type (bot.py:167-169): n and -n
SubscribedAsync(n) ==
  IF n = 0 THEN EmptyRegistry
  ELSE subscribe_async(subscribe_async(SubscribedAsync(n - 1), "task_result", n),
                       "task_error", -n)

RECURSIVE SubscribedSync(_)
\* the registry after n calls of subscribe for each event type
SubscribedSync(n) ==
  IF n = 0 THEN EmptyRegistry
  ELSE subscribe(subscribe(SubscribedSync(n - 1), "task_result", n), "task_error", -n)

\* position of emit_event in its two loops: the handler it is awaiting
NoHandler == [kind |-> "none", i |-> 0]
BeforeHandlers == [kind |-> "sync", i |-> 0]

\* a dispatch loop without the try/except around each call: it ends at the
\* first handler that raises
NextHandlerStop(event_type, hk, raised) ==
  IF raised THEN NoHandler
  ELSE IF hk.kind = "sync" /\ hk.i < Len(sync_handlers[event_type])
       THEN [kind |-> "sync", i |-> hk.i + 1]
       ELSE IF hk.kind = "sync"
            THEN IF Len(async_handlers[event_type]) >= 1
                 THEN [kind |-> "async", i |-> 1] ELSE NoHandler
            ELSE IF hk.i < Len(async_handlers[event_type])
                 THEN [kind |-> "async", i |-> hk.i + 1] ELSE NoHandler

\* the handler emit_event calls after the one at position hk has returned or
\* raised: the synchronous handlers in list order, then the asynchronous ones
NextHandler(event_type, hk, raised) ==
  IF hk.kind = "sync" /\ hk.i < Len(sync_handlers[event_type])
  THEN [kind |-> "sync", i |-> hk.i + 1]
  ELSE IF hk.kind = "sync"
       THEN IF Len(async_handlers[event_type]) >= 1
            THEN [kind |-> "async", i |-> 1] ELSE NoHandler
       ELSE IF hk.i < Len(async_handlers[event_type])
            THEN [kind |-> "async", i |-> hk.i + 1] ELSE NoHandler

\* the other event type
OtherType(event_type) == IF event_type = "task_result" THEN "task_error" ELSE "task_result"

\* a dispatch that looks the handler up under the other event type
HandlerAtOtherType(event_type, hk) ==
  IF hk.kind = "sync" THEN sync_handlers[OtherType(event_type)][hk.i]
  ELSE async_handlers[OtherType(event_type)][hk.i]

\* the handler object at a position
HandlerAt(event_type, hk) ==
  IF hk.kind = "sync" THEN sync_handlers[event_type][hk.i]
  ELSE async_handlers[event_type][hk.i]

\* history: one record per handler invocation of an emit
CallOf(event_type, hk) ==
  [kind |-> hk.kind, handler |-> HandlerAt(event_type, hk)]

\* ---- core/process_manager.py ----

\* the state the coroutines of process_manager.py read and write
World == [st |-> TASK_STATUS, rt |-> TASK_RETRIES, db |-> task_log,
          q |-> TASK_QUEUE, tasks |-> tasks, sv |-> sem_value, now |-> now,
          submitted |-> submitted, emitted |-> emitted]

SetWorld(w) ==
  /\ TASK_STATUS' = w.st
  /\ TASK_RETRIES' = w.rt
  /\ task_log' = w.db
  /\ TASK_QUEUE' = w.q
  /\ tasks' = w.tasks
  /\ sem_value' = w.sv
  /\ now' = w.now
  /\ submitted' = w.submitted
  /\ emitted' = w.emitted

\* enqueue_script; root is 0 for a caller's submission and the seq of the
\* first attempt for the retry controller's call (history only)
enqueue_script(w, script_path, args, retries_arg, root) ==
  LET retries_left == IF retries_arg = NoRetries THEN TASK_MAX_RETRIES ELSE retries_arg
      task_id == TaskIdOf(script_path, args, w.now)
      seq == Len(w.submitted) + 1
      item == [task_id |-> task_id, script_path |-> script_path, args |-> args,
               retries_left |-> retries_left, seq |-> seq,
               root |-> IF root = 0 THEN seq ELSE root]
  IN [w EXCEPT !.st = (task_id :> "pending") @@ @,
               !.rt = (task_id :> retries_left) @@ @,
               !.db = log_task_start(@, task_id, script_path, args),
               !.q = Append(@, item),
               !.submitted = Append(@, item)]

\* get_active_task_count
get_active_task_count == Cardinality({ id \in DOMAIN TASK_STATUS : TASK_STATUS[id] = "running" })

\* the task object asyncio.create_task(_execute_task_with_semaphore(item)) makes
NewTask(item, sem) ==
  [pc |-> "created", item |-> item, sem |-> sem, etype |-> "none",
   hk |-> NoHandler, outcome |-> "none", overdue |-> FALSE, calls |-> <<>>,
   raised |-> {}, stdout |-> <<>>, fault |-> "none", exc |-> "none",
   at_start |-> <<>>]

\* a task that ends without giving its token back
ReleaseLeak(w, s) ==
  [w EXCEPT !.tasks[s].pc = "done", !.tasks[s].hk = NoHandler,
            !.tasks[s].overdue = FALSE,
            !.tasks[s].raised = IF @ = {} THEN {} ELSE {0}]

\* __aexit__ of "async with _semaphore": the token goes back to the semaphore
\* object it was taken from, and the task ends
\* (history: of the calls that raised, a finished task keeps only whether any did)
Release(w, s) ==
  [w EXCEPT !.sv[w.tasks[s].sem] = @ + 1,
            !.tasks[s].pc = "done", !.tasks[s].hk = NoHandler,
            !.tasks[s].overdue = FALSE,
            !.tasks[s].raised = IF @ = {} THEN {} ELSE {0}]

\* an executor that goes on to the back-off and a further attempt after a
\* task_result
AfterEmitRetries(w, s, event_type) ==
  LET task_id == w.tasks[s].item.task_id IN
  IF event_type = "task_result"
  THEN [w EXCEPT !.db = log_task_finish(@, task_id, "finished", None),
                 !.st[task_id] = "finished",
                 !.tasks[s].pc = "backoff", !.tasks[s].hk = NoHandler]
  ELSE Release([w EXCEPT !.st[task_id] = "failed"], s)

\* the code that follows "await emit_event(...)" up to the end of the task:
\* lines 190-196 after task_result, line 228 after task_error
AfterEmit(w, s, event_type) ==
  LET task_id == w.tasks[s].item.task_id IN
  IF event_type = "task_result"
  THEN Release([w EXCEPT !.db = log_task_finish(@, task_id, "finished", None),
                         !.st[task_id] = "finished"], s)
  ELSE Release([w EXCEPT !.st[task_id] = "failed"], s)

\* an emit_event that leaves the dispatch to a task of its own: the executor
\* goes on at once
emit_event_detached(w, s, event_type, event_data) ==
  AfterEmit([w EXCEPT !.emitted = @ \cup {[type |-> event_type, payload |-> event_data,
                                           seq |-> s]},
                      !.tasks[s].etype = event_type], s, event_type)

\* emit_event up to its first suspension: the first handler is called, or,
\* with no handler subscribed, the caller goes on at once
\* (history: at_start is the list of asynchronous handlers it finds)
emit_event(w, s, event_type, event_data) ==
  LET w1 == [w EXCEPT !.emitted = @ \cup {[type |-> event_type, payload |-> event_data,
                                           seq |-> s]},
                      !.tasks[s].etype = event_type,
                      !.tasks[s].at_start = async_handlers[event_type]]
      first == NextHandler(event_type, BeforeHandlers, FALSE)
  IN IF first = NoHandler THEN AfterEmit(w1, s, event_type)
     ELSE [w1 EXCEPT !.tasks[s].pc = "emit", !.tasks[s].hk = first,
                     !.tasks[s].calls = Append(@, CallOf(event_type, first))]

\* error texts of lines 142, 148 and 202
TimeoutMsg == <<"timeout", ">", "TASK_TIMEOUT_SEC">>
SpawnErrorMsg == <<"subprocess", "start", "error">>
ExitMsg(returncode) == <<"exit", "code", ToString(returncode), "STDERR">>

\* the payload of lines 221-227
ErrorPayload(item, error_msg) ==
  (<<"task_id">> :> item.task_id) @@ (<<"EVENT_TYPE">> :> <<"task_error">>) @@
  (<<"RESULT_TYPE">> :> <<"error">>) @@
  (<<"ERROR_MESSAGE">> :> (<<"execution", "error", ":">> \o error_msg)) @@
  (<<"user_id">> :> UserIdOf(item.args))

\* a retry controller that reports every failed attempt: with retries left
\* it enqueues the retry and emits task_error as well
_handle_task_failure_reports_each(w, s, error_msg, outcome) ==
  LET item == w.tasks[s].item
      w1 == [w EXCEPT !.db = log_task_finish(@, item.task_id, "failed", error_msg),
                      !.tasks[s].outcome = outcome]
  IN IF item.retries_left > 0
     THEN emit_event(enqueue_script([w1 EXCEPT !.now = @ + 1], item.script_path,
                                    item.args, item.retries_left - 1, item.root),
                     s, "task_error", ErrorPayload(item, error_msg))
     ELSE emit_event(w1, s, "task_error", ErrorPayload(item, error_msg))

\* a retry controller that still retries at retries_left = 0
_handle_task_failure_retry_at_zero(w, s, error_msg, outcome) ==
  LET item == w.tasks[s].item
      w1 == [w EXCEPT !.db = log_task_finish(@, item.task_id, "failed", error_msg),
                      !.tasks[s].outcome = outcome]
  IN IF item.retries_left >= 0
     THEN [w1 EXCEPT !.tasks[s].pc = "backoff"]
     ELSE emit_event(w1, s, "task_error", ErrorPayload(item, error_msg))

\* _handle_task_failure up to its first suspension: the failure is logged,
\* then either the back-off sleep starts or task_error is emitted; the retry
\* branch (lines 213-217) leaves _TASK_STATUS[task_id] as it is
_handle_task_failure(w, s, error_msg, outcome) ==
  LET item == w.tasks[s].item
      w1 == [w EXCEPT !.db = log_task_finish(@, item.task_id, "failed", error_msg),
                      !.tasks[s].outcome = outcome]
  IN IF item.retries_left > 0
     THEN [w1 EXCEPT !.tasks[s].pc = "backoff"]
     ELSE emit_event(w1, s, "task_error", ErrorPayload(item, error_msg))

\* a payload without line 185
ResultPayloadNoTaskId(item, parsed_data) ==
  DictSet(parsed_data, <<"user_id">>, UserIdOf(item.args))

\* the payload of lines 185-188
ResultPayload(item, parsed_data) ==
  DictSet(DictSet(parsed_data, <<"task_id">>, item.task_id),
          <<"user_id">>, UserIdOf(item.args))

\* an executor that takes an exit 0 without any KEY:VALUE pair for a failure
_execute_task_exit_empty_fails(w, s, returncode, stdout) ==
  LET item == w.tasks[s].item
      parsed_data == _parse_script_output(stdout)
  IN IF returncode = 0
     THEN IF DOMAIN parsed_data # {}
          THEN emit_event([w EXCEPT !.tasks[s].outcome = "result",
                                    !.tasks[s].stdout = stdout], s, "task_result",
                          ResultPayload(item, parsed_data))
          ELSE _handle_task_failure([w EXCEPT !.tasks[s].stdout = stdout], s,
                                    ExitMsg(returncode), "empty")
     ELSE _handle_task_failure(w, s, ExitMsg(returncode), "exit")

\* _execute_task from the return of proc.communicate() (line 153) on
_execute_task_exit(w, s, returncode, stdout) ==
  LET item == w.tasks[s].item
      parsed_data == _parse_script_output(stdout)
  IN IF returncode = 0
     THEN IF DOMAIN parsed_data # {}
          THEN emit_event([w EXCEPT !.tasks[s].outcome = "result",
                                    !.tasks[s].stdout = stdout], s, "task_result",
                          ResultPayload(item, parsed_data))
          ELSE Release([w EXCEPT !.tasks[s].outcome = "empty",
                                 !.tasks[s].stdout = stdout,
                                 !.db = log_task_finish(@, item.task_id, "finished", None),
                                 !.st[item.task_id] = "finished"], s)
     ELSE _handle_task_failure(w, s, ExitMsg(returncode), "exit")

\* ---- internal failures: a call inside the executor raises ----

\* an except branch that only logs
OnFailureHandlingRaisedKeepsStatus(w, s) ==
  Release([w EXCEPT !.tasks[s].exc = "caught"], s)

\* the except branch of _handle_task_failure (lines 229-232): the exception
\* is logged, the status forced to 'failed', and _execute_task returns
OnFailureHandlingRaised(w, s) ==
  Release([w EXCEPT !.st[w.tasks[s].item.task_id] = "failed",
                    !.tasks[s].exc = "caught"], s)

\* an exception raised in _execute_task outside any try (lines 153, 195):
\* it leaves _execute_task and "async with", which gives the token back, and
\* ends the task; nothing else is written
OnExecutorRaised(w, s) == Release([w EXCEPT !.tasks[s].exc = "escaped"], s)

\* enqueue_script up to a log_task_start that raises (sqlite3.connect, line
\* 33 of process_log_db.py, is outside its try): lines 78-79 have run, the
\* put of line 85 has not
enqueue_script_raises(w, script_path, args, retries_arg) ==
  LET retries_left == IF retries_arg = NoRetries THEN TASK_MAX_RETRIES ELSE retries_arg
      task_id == TaskIdOf(script_path, args, w.now)
  IN [w EXCEPT !.st = (task_id :> "pending") @@ @,
               !.rt = (task_id :> retries_left) @@ @]

\* ---- the state machine ----

InitRest ==
  /\ semaphore = 0
  /\ sem_value = <<>>
  /\ loops = 0
  /\ TASK_QUEUE = <<>>
  /\ TASK_STATUS = [id \in {} |-> "pending"]
  /\ TASK_RETRIES = [id \in {} |-> 0]
  /\ task_log = [id \in {} |-> 0]
  /\ tasks = [s \in {} |-> 0]
  /\ now = 0
  /\ submitted = <<>>
  /\ emitted = {}
  /\ dequeued = <<>>
  /\ enq_at_full = FALSE
  /\ bus_call = NoCall

\* bot.py:167-169: post_init subscribes one asynchronous handler to each type
Init ==
  /\ sync_handlers = SubscribedSync(0)
  /\ async_handlers = SubscribedAsync(1)
  /\ InitRest

\* the unit tests: any number of handlers of both kinds
InitBus ==
  /\ \E n \in 0..MaxHandlers, m \in 0..MaxHandlers :
       /\ n + m <= MaxHandlers
       /\ sync_handlers = SubscribedSync(n)
       /\ async_handlers = SubscribedAsync(m)
  /\ InitRest

Registry == <<sync_handlers, async_handlers>>
Gate == <<semaphore, loops>>

\* attempts a submission can take: its own and its retries
AttemptsOf(retries_arg) ==
  1 + (IF retries_arg = NoRetries THEN TASK_MAX_RETRIES ELSE retries_arg)

RECURSIVE Reserved(_)
\* attempts the submissions made so far can take in all
Reserved(items) ==
  IF items = <<>> THEN 0
  ELSE (IF Head(items).root = Head(items).seq THEN Head(items).retries_left + 1 ELSE 0)
       + Reserved(Tail(items))

\* _start_workers, first call: the semaphore is made and the consumer loop started
StartWorkers ==
  /\ semaphore = 0
  /\ semaphore' = 1
  /\ sem_value' = <<MAX_CONCURRENT_TASKS>>
  /\ loops' = 1
  /\ UNCHANGED <<Registry, bus_call, TASK_QUEUE, TASK_STATUS, TASK_RETRIES, task_log, tasks,
                 now, submitted, emitted, dequeued, enq_at_full>>

\* a queue made with maxsize 1
QueueFullBounded(q) == Len(q) >= 1

\* Queue.full(): what "await _TASK_QUEUE.put(...)" (line 85) waits on
QueueFull(q) == QUEUE_MAXSIZE > 0 /\ Len(q) >= QUEUE_MAXSIZE

\* a caller awaits enqueue_script(script_path, args, retries_left); dt tells
\* whether the clock has moved since the last task_id was made; limit caps
\* the calls of one behaviour
Enqueue(limit, script_path, args, retries_arg, dt) ==
  /\ Reserved(submitted) + AttemptsOf(retries_arg) <= limit
  /\ ~QueueFull(TASK_QUEUE)
  /\ SetWorld(enqueue_script([World EXCEPT !.now = @ + dt], script_path, args,
                             retries_arg, 0))
  /\ enq_at_full' = (enq_at_full \/ (semaphore # 0 /\ sem_value[semaphore] = 0))
  /\ UNCHANGED <<Registry, bus_call, Gate, dequeued>>

\* a LIFO queue
QueueGetLifo(q) == [item |-> q[Len(q)], rest |-> SubSeq(q, 1, Len(q) - 1)]

\* Queue.get(): the item taken and the queue left
QueueGet(q) == [item |-> Head(q), rest |-> Tail(q)]

\* one iteration of _process_queue_loop: get() and create_task()
Dequeue ==
  /\ loops > 0
  /\ TASK_QUEUE # <<>>
  /\ LET got == QueueGet(TASK_QUEUE) IN
       /\ TASK_QUEUE' = got.rest
       /\ tasks' = (got.item.seq :> NewTask(got.item, semaphore)) @@ tasks
       /\ dequeued' = Append(dequeued, got.item.seq)
  /\ UNCHANGED <<Registry, bus_call, Gate, sem_value, TASK_STATUS, TASK_RETRIES, task_log,
                 now, submitted, emitted, enq_at_full>>

\* "async with _semaphore" is entered and _execute_task runs to the await of
\* create_subprocess_exec: status 'running' (line 115)
\* a gate that lets every caller in
SemaphoreFreeAlways(value) == TRUE

\* Semaphore.acquire() goes through without waiting
SemaphoreFree(value) == value > 0

Acquire(s) ==
  /\ tasks[s].pc = "created"
  /\ SemaphoreFree(sem_value[tasks[s].sem])
  /\ sem_value' = [sem_value EXCEPT ![tasks[s].sem] = @ - 1]
  /\ tasks' = [tasks EXCEPT ![s].pc = "spawn"]
  /\ TASK_STATUS' = [TASK_STATUS EXCEPT ![tasks[s].item.task_id] = "running"]
  /\ UNCHANGED <<Registry, bus_call, Gate, TASK_QUEUE, TASK_RETRIES, task_log, now,
                 submitted, emitted, dequeued, enq_at_full>>

\* create_subprocess_exec returns the process within the deadline
SpawnOk(s) ==
  /\ tasks[s].pc = "spawn"
  /\ tasks' = [tasks EXCEPT ![s].pc = "communicate"]
  /\ UNCHANGED <<Registry, bus_call, Gate, sem_value, TASK_QUEUE, TASK_STATUS, TASK_RETRIES,
                 task_log, now, submitted, emitted, dequeued, enq_at_full>>

\* asyncio.wait_for gives up on create_subprocess_exec (lines 139-144)
SpawnTimeout(s) ==
  /\ tasks[s].pc = "spawn"
  /\ SetWorld(_handle_task_failure(World, s, TimeoutMsg, "timeout"))
  /\ UNCHANGED <<Registry, bus_call, Gate, dequeued, enq_at_full>>

\* create_subprocess_exec raises (lines 145-150)
SpawnError(s) ==
  /\ tasks[s].pc = "spawn"
  /\ SetWorld(_handle_task_failure(World, s, SpawnErrorMsg, "spawn_error"))
  /\ UNCHANGED <<Registry, bus_call, Gate, dequeued, enq_at_full>>

\* TASK_TIMEOUT_SEC passes while proc.communicate() (line 153) is awaited:
\* the wait_for of lines 129-138 ended when the process was created, so no
\* timer is left to fire; overdue records that the deadline has passed
DeadlinePasses(s) ==
  /\ tasks[s].pc = "communicate"
  /\ ~tasks[s].overdue
  /\ tasks' = [tasks EXCEPT ![s].overdue = TRUE]
  /\ UNCHANGED <<Registry, bus_call, Gate, sem_value, TASK_QUEUE, TASK_STATUS, TASK_RETRIES,
                 task_log, now, submitted, emitted, dequeued, enq_at_full>>

\* the child exits and proc.communicate() returns
ChildExit(s, returncode, stdout) ==
  /\ tasks[s].pc = "communicate"
  /\ SetWorld(_execute_task_exit(World, s, returncode, stdout))
  /\ UNCHANGED <<Registry, bus_call, Gate, dequeued, enq_at_full>>

\* a retry that keeps the count of retries left
RetriesForRetrySame(retries_left) == retries_left

\* the retries_left the retry controller passes to enqueue_script (line 217)
RetriesForRetry(retries_left) == retries_left - 1

\* asyncio.sleep(TASK_RETRY_DELAY_SEC) is over: the retry is enqueued
\* (line 217) and the task ends
BackoffDone(s) ==
  /\ tasks[s].pc = "backoff"
  /\ ~QueueFull(TASK_QUEUE)
  /\ LET item == tasks[s].item IN
       SetWorld(Release(enqueue_script([World EXCEPT !.now = @ + 1], item.script_path,
                                       item.args, RetriesForRetry(item.retries_left),
                                       item.root), s))
  /\ enq_at_full' = (enq_at_full \/ sem_value[semaphore] = 0)
  /\ UNCHANGED <<Registry, bus_call, Gate, dequeued>>

\* an emit_event that lets the exception of a handler through to the executor:
\* _execute_task ends at once, _handle_task_failure goes to its except branch
OnHandlerDonePropagate(w, s, raised) ==
  LET t == w.tasks[s]
      done == [w EXCEPT !.tasks[s].raised = IF raised THEN @ \cup {Len(t.calls)} ELSE @]
      nxt == NextHandler(t.etype, t.hk, raised)
  IN IF raised
     THEN IF t.etype = "task_error"
          THEN Release([done EXCEPT !.st[t.item.task_id] = "failed"], s)
          ELSE Release(done, s)
     ELSE IF nxt = NoHandler
          THEN AfterEmit(done, s, t.etype)
          ELSE [done EXCEPT !.tasks[s].hk = nxt,
                            !.tasks[s].calls = Append(@, CallOf(t.etype, nxt))]

\* emit_event from the return of the handler it awaits: an exception of the
\* handler is logged and dropped (lines 104-105, 114-115), the next handler
\* is called or emit_event returns to the executor
OnHandlerDone(w, s, raised) ==
  LET t == w.tasks[s]
      done == [w EXCEPT !.tasks[s].raised = IF raised THEN @ \cup {Len(t.calls)} ELSE @]
      nxt == NextHandler(t.etype, t.hk, raised)
  IN IF nxt = NoHandler
     THEN AfterEmit(done, s, t.etype)
     ELSE [done EXCEPT !.tasks[s].hk = nxt,
                       !.tasks[s].calls = Append(@, CallOf(t.etype, nxt))]

\* the handler emit_event awaits returns or raises
HandlerReturns(s, raised) ==
  /\ tasks[s].pc = "emit"
  /\ SetWorld(OnHandlerDone(World, s, raised))
  /\ UNCHANGED <<Registry, bus_call, Gate, dequeued, enq_at_full>>

RetryArgs == (0..MaxRetries) \cup {NoRetries}
RetryArgsBus == (0..MaxRetriesBus) \cup {NoRetries}

\* the program as bot.py runs it
Next ==
  \/ StartWorkers
  \/ \E p \in ScriptPaths, a \in ArgLists, r \in RetryArgs, dt \in ClockSteps :
        Enqueue(MaxTasks, p, a, r, dt)
  \/ Dequeue
  \/ \E s \in DOMAIN tasks : Acquire(s)
  \/ \E s \in DOMAIN tasks : SpawnOk(s)
  \/ \E s \in DOMAIN tasks : SpawnTimeout(s)
  \/ \E s \in DOMAIN tasks : SpawnError(s)
  \/ \E s \in DOMAIN tasks : DeadlinePasses(s)
  \/ \E s \in DOMAIN tasks, rc \in {0, 1}, out \in Outputs : ChildExit(s, rc, out)
  \/ \E s \in DOMAIN tasks : BackoffDone(s)
  \/ \E s \in DOMAIN tasks, raised \in BOOLEAN : HandlerReturns(s, raised)

Spec == Init /\ [][Next]_vars

\* the library as the unit tests drive it
NextBus ==
  \/ StartWorkers
  \/ \E p \in ScriptPaths, a \in ArgListsBus, r \in RetryArgsBus, dt \in ClockSteps :
        Enqueue(MaxTasksBus, p, a, r, dt)
  \/ Dequeue
  \/ \E s \in DOMAIN tasks : Acquire(s)
  \/ \E s \in DOMAIN tasks : SpawnOk(s)
  \/ \E s \in DOMAIN tasks : SpawnTimeout(s)
  \/ \E s \in DOMAIN tasks : SpawnError(s)
  \/ \E s \in DOMAIN tasks : DeadlinePasses(s)
  \/ \E s \in DOMAIN tasks, rc \in {0, 1}, out \in OutputsBus : ChildExit(s, rc, out)
  \/ \E s \in DOMAIN tasks : BackoffDone(s)
  \/ \E s \in DOMAIN tasks, raised \in BOOLEAN : HandlerReturns(s, raised)

SpecBus == InitBus /\ [][NextBus]_vars

\* callers that submit within one clock reading and with arg lists that join
\* to the same text; they pass retries_left = 0, so no retry is made
NextIds ==
  \/ StartWorkers
  \/ \E p \in ScriptPaths, a \in ArgListsIds, dt \in ClockStepsIds :
        Enqueue(MaxTasksIds, p, a, 0, dt)
  \/ Dequeue
  \/ \E s \in DOMAIN tasks : Acquire(s)
  \/ \E s \in DOMAIN tasks : SpawnOk(s)
  \/ \E s \in DOMAIN tasks : SpawnTimeout(s)
  \/ \E s \in DOMAIN tasks : SpawnError(s)
  \/ \E s \in DOMAIN tasks : DeadlinePasses(s)
  \/ \E s \in DOMAIN tasks, rc \in {0, 1}, out \in Outputs : ChildExit(s, rc, out)
  \/ \E s \in DOMAIN tasks, raised \in BOOLEAN : HandlerReturns(s, raised)

SpecIds == Init /\ [][NextIds]_vars

RetryArgsLive == (0..MaxRetriesLive) \cup {NoRetries}

\* the program with what the event loop and the operating system guarantee
NextLive ==
  \/ StartWorkers
  \/ \E p \in ScriptPaths, a \in ArgLists, r \in RetryArgsLive, dt \in ClockSteps :
        Enqueue(MaxTasksLive, p, a, r, dt)
  \/ Dequeue
  \/ \E s \in DOMAIN tasks : Acquire(s)
  \/ \E s \in DOMAIN tasks : SpawnOk(s)
  \/ \E s \in DOMAIN tasks : SpawnTimeout(s)
  \/ \E s \in DOMAIN tasks : SpawnError(s)
  \/ \E s \in DOMAIN tasks : DeadlinePasses(s)
  \/ \E s \in DOMAIN tasks, rc \in {0, 1}, out \in Outputs : ChildExit(s, rc, out)
  \/ \E s \in DOMAIN tasks : BackoffDone(s)
  \/ \E s \in DOMAIN tasks, raised \in BOOLEAN : HandlerReturns(s, raised)

\* create_subprocess_exec returns, raises, or wait_for gives up on it
SpawnEnds(s) == s \in DOMAIN tasks /\ (SpawnOk(s) \/ SpawnTimeout(s) \/ SpawnError(s))

\* a child terminates within TASK_TIMEOUT_SEC or exceeds it; one that has
\* exceeded it may run for ever
ChildEndsOrOverdue(s) ==
  /\ s \in DOMAIN tasks
  /\ \/ DeadlinePasses(s)
     \/ ~tasks[s].overdue /\ \E rc \in {0, 1}, out \in Outputs : ChildExit(s, rc, out)

\* a handler returns or raises
HandlerEnds(s) == s \in DOMAIN tasks /\ \E raised \in BOOLEAN : HandlerReturns(s, raised)

\* the event loop runs every coroutine that can go on: the consumer loop once
\* it is started, the sleeps and the awaited calls; asyncio.Semaphore wakes
\* its waiters in turn, so a waiter is not passed over for ever.  Nothing
\* makes a caller call init_process_manager or enqueue_script.
Fairness ==
  /\ WF_vars(Dequeue)
  /\ \A s \in 1..MaxTasksLive :
       /\ SF_vars(s \in DOMAIN tasks /\ Acquire(s))
       /\ WF_vars(SpawnEnds(s))
       /\ WF_vars(ChildEndsOrOverdue(s))
       /\ WF_vars(s \in DOMAIN tasks /\ BackoffDone(s))
       /\ WF_vars(HandlerEnds(s))

SpecLive == Init /\ [][NextLive]_vars /\ Fairness

\* the failure kinds of an execution and where it is when they show
FailureAt(s, outcome) ==
  \/ tasks[s].pc = "spawn" /\ outcome \in {"timeout", "spawn_error"}
  \/ tasks[s].pc = "communicate" /\ outcome = "exit"

\* _handle_task_failure is entered and its log_task_finish (line 211) raises
PersistFailureRaises(s, outcome) ==
  /\ FailureAt(s, outcome)
  /\ SetWorld(OnFailureHandlingRaised([World EXCEPT !.tasks[s].outcome = outcome,
                                                    !.tasks[s].fault = "persist"], s))
  /\ UNCHANGED <<Registry, bus_call, Gate, dequeued, enq_at_full>>

\* the asyncio.sleep of line 215 raises
BackoffSleepRaises(s) ==
  /\ tasks[s].pc = "backoff"
  /\ SetWorld(OnFailureHandlingRaised([World EXCEPT !.tasks[s].fault = "sleep"], s))
  /\ UNCHANGED <<Registry, bus_call, Gate, dequeued, enq_at_full>>

\* the enqueue_script of line 217 raises in its log_task_start
RetryEnqueueRaises(s) ==
  /\ tasks[s].pc = "backoff"
  /\ LET item == tasks[s].item IN
       SetWorld(OnFailureHandlingRaised(
                  enqueue_script_raises([World EXCEPT !.now = @ + 1,
                                                      !.tasks[s].fault = "enqueue"],
                                        item.script_path, item.args,
                                        RetriesForRetry(item.retries_left)), s))
  /\ UNCHANGED <<Registry, bus_call, Gate, dequeued, enq_at_full>>

\* proc.communicate() (line 153) raises
CommunicateRaises(s) ==
  /\ tasks[s].pc = "communicate"
  /\ SetWorld(OnExecutorRaised([World EXCEPT !.tasks[s].fault = "communicate"], s))
  /\ UNCHANGED <<Registry, bus_call, Gate, dequeued, enq_at_full>>

\* the last handler of a task_result returns and the log_task_finish of line
\* 195 raises
FinishPersistRaises(s) ==
  /\ tasks[s].pc = "emit"
  /\ tasks[s].etype = "task_result"
  /\ NextHandler(tasks[s].etype, tasks[s].hk, FALSE) = NoHandler
  /\ SetWorld(OnExecutorRaised([World EXCEPT !.tasks[s].fault = "finish"], s))
  /\ UNCHANGED <<Registry, bus_call, Gate, dequeued, enq_at_full>>

RetryArgsFault == (0..MaxRetriesFault) \cup {NoRetries}

\* the program with a durable log, a sleep and a pipe that can fail; the
\* handlers return
NextFault ==
  \/ StartWorkers
  \/ \E p \in ScriptPaths, a \in ArgLists, r \in RetryArgsFault, dt \in ClockSteps :
        Enqueue(MaxTasksFault, p, a, r, dt)
  \/ Dequeue
  \/ \E s \in DOMAIN tasks : Acquire(s)
  \/ \E s \in DOMAIN tasks : SpawnOk(s)
  \/ \E s \in DOMAIN tasks : SpawnTimeout(s)
  \/ \E s \in DOMAIN tasks : SpawnError(s)
  \/ \E s \in DOMAIN tasks : DeadlinePasses(s)
  \/ \E s \in DOMAIN tasks, rc \in {0, 1}, out \in Outputs : ChildExit(s, rc, out)
  \/ \E s \in DOMAIN tasks : BackoffDone(s)
  \/ \E s \in DOMAIN tasks : HandlerReturns(s, FALSE)
  \/ \E s \in DOMAIN tasks, outcome \in {"timeout", "spawn_error", "exit"} :
        PersistFailureRaises(s, outcome)
  \/ \E s \in DOMAIN tasks : BackoffSleepRaises(s)
  \/ \E s \in DOMAIN tasks : RetryEnqueueRaises(s)
  \/ \E s \in DOMAIN tasks : CommunicateRaises(s)
  \/ \E s \in DOMAIN tasks : FinishPersistRaises(s)

SpecFault == Init /\ [][NextFault]_vars

\* what the registry actions leave alone
Manager == <<semaphore, sem_value, loops, TASK_QUEUE, TASK_STATUS, TASK_RETRIES,
             task_log, tasks, now, submitted, emitted, dequeued, enq_at_full>>

\* the registries before any subscription
InitReg ==
  /\ sync_handlers = EmptyRegistry
  /\ async_handlers = EmptyRegistry
  /\ InitRest

\* a caller calls subscribe(event_type, handler)
Subscribe(event_type, handler) ==
  /\ Len(sync_handlers[event_type]) < MaxSubs
  /\ sync_handlers' = subscribe(sync_handlers, event_type, handler)
  /\ bus_call' = [NoCall EXCEPT !.op = "subscribe", !.type = event_type,
                                !.handler = handler,
                                !.before = <<sync_handlers, async_handlers>>]
  /\ UNCHANGED <<async_handlers, Manager>>

\* a caller calls subscribe_async(event_type, handler); handler may be None
SubscribeAsync(event_type, handler) ==
  /\ Len(async_handlers[event_type]) < MaxSubs
  /\ async_handlers' = subscribe_async(async_handlers, event_type, handler)
  /\ bus_call' = [NoCall EXCEPT !.op = "subscribe_async", !.type = event_type,
                                !.handler = handler,
                                !.before = <<sync_handlers, async_handlers>>]
  /\ UNCHANGED <<sync_handlers, Manager>>

\* a caller calls unsubscribe_async(event_type, handler)
UnsubscribeAsync(event_type, handler) ==
  /\ async_handlers' = unsubscribe_async(async_handlers, event_type, handler)
  /\ bus_call' = [NoCall EXCEPT !.op = "unsubscribe_async", !.type = event_type,
                                !.handler = handler,
                                !.before = <<sync_handlers, async_handlers>>]
  /\ UNCHANGED <<sync_handlers, Manager>>

\* a caller calls emit_event_sync(event_type, payload); the handlers at the
\* positions raises raise
EmitSync(event_type, raises) ==
  /\ LET r == emit_event_sync(sync_handlers, async_handlers, event_type, raises) IN
       bus_call' = [NoCall EXCEPT !.op = "emit_event_sync", !.type = event_type,
                                  !.calls = r.calls, !.raised = r.raised,
                                  !.escaped = r.escaped,
                                  !.before = <<sync_handlers, async_handlers>>]
  /\ UNCHANGED <<Registry, Manager>>

\* the event bus as its callers drive it
NextReg ==
  \/ \E t \in EventTypes, h \in HandlersReg : Subscribe(t, h)
  \/ \E t \in EventTypes, h \in HandlersReg \cup {NoneHandler} : SubscribeAsync(t, h)
  \/ \E t \in EventTypes, h \in HandlersReg : UnsubscribeAsync(t, h)
  \/ \E t \in EventTypes : \E raises \in SUBSET (1..Len(sync_handlers[t])) :
        EmitSync(t, raises)

SpecReg == InitReg /\ [][NextReg]_vars

\* _start_workers, a further call (init_process_manager called again): the
\* global _semaphore is bound to a new Semaphore(MAX_CONCURRENT_TASKS) and one
\* more consumer loop is started; the executions that have entered or wait
\* at "async with _semaphore" keep the object they found there
StartWorkersAgain ==
  /\ semaphore # 0
  /\ semaphore < MaxInits
  /\ semaphore' = semaphore + 1
  /\ sem_value' = Append(sem_value, MAX_CONCURRENT_TASKS)
  /\ loops' = loops + 1
  /\ UNCHANGED <<Registry, bus_call, TASK_QUEUE, TASK_STATUS, TASK_RETRIES, task_log, tasks,
                 now, submitted, emitted, dequeued, enq_at_full>>

\* the program with callers that call init_process_manager again; they pass
\* retries_left = 0, so no retry is made; the children start and exit within
\* the deadline and the handlers return
NextReinit ==
  \/ StartWorkers
  \/ StartWorkersAgain
  \/ \E p \in ScriptPaths, a \in ArgLists, dt \in ClockSteps :
        Enqueue(MaxTasksReinit, p, a, 0, dt)
  \/ Dequeue
  \/ \E s \in DOMAIN tasks : Acquire(s)
  \/ \E s \in DOMAIN tasks : SpawnOk(s)
  \/ \E s \in DOMAIN tasks, rc \in {0, 1}, out \in Outputs : ChildExit(s, rc, out)
  \/ \E s \in DOMAIN tasks : HandlerReturns(s, FALSE)

SpecReinit == Init /\ [][NextReinit]_vars

\* callers have subscribed two asynchronous handlers to each type
InitDyn ==
  /\ sync_handlers = EmptyRegistry
  /\ async_handlers = SubscribedAsync(2)
  /\ InitRest

\* the handler a dispatch waits for calls subscribe_async for the type of
\* the dispatch, for itself or for another handler
HandlerSubscribes(s, handler) ==
  /\ tasks[s].pc = "emit"
  /\ Len(async_handlers[tasks[s].etype]) < MaxSubsDyn
  /\ async_handlers' = subscribe_async(async_handlers, tasks[s].etype, handler)
  /\ UNCHANGED <<sync_handlers, bus_call, Manager>>

\* the handler a dispatch waits for calls unsubscribe_async for the type of
\* the dispatch, for itself or for another handler
HandlerUnsubscribes(s, handler) ==
  /\ tasks[s].pc = "emit"
  /\ async_handlers' = unsubscribe_async(async_handlers, tasks[s].etype, handler)
  /\ UNCHANGED <<sync_handlers, bus_call, Manager>>

\* the program with handlers that subscribe and unsubscribe while a dispatch
\* waits for them; callers pass retries_left = 0, the children start and
\* exit 0 within the deadline and the handlers return
NextDyn ==
  \/ StartWorkers
  \/ \E p \in ScriptPaths, a \in ArgLists, dt \in ClockSteps :
        Enqueue(MaxTasksDyn, p, a, 0, dt)
  \/ Dequeue
  \/ \E s \in DOMAIN tasks : Acquire(s)
  \/ \E s \in DOMAIN tasks : SpawnOk(s)
  \/ \E s \in DOMAIN tasks, out \in Outputs : ChildExit(s, 0, out)
  \/ \E s \in DOMAIN tasks : HandlerReturns(s, FALSE)
  \/ \E s \in DOMAIN tasks : \E h \in Range(tasks[s].at_start) : HandlerSubscribes(s, h)
  \/ \E s \in DOMAIN tasks : \E h \in Range(tasks[s].at_start) : HandlerUnsubscribes(s, h)

SpecDyn == InitDyn /\ [][NextDyn]_vars

\* the program with callers of both kinds and children that print what they
\* like; callers pass retries_left = 0, the children start and exit 0 within
\* the deadline and the handlers return
NextArgs ==
  \/ StartWorkers
  \/ \E p \in ScriptPaths, a \in ArgListsArgs, dt \in ClockSteps :
        Enqueue(MaxTasksArgs, p, a, 0, dt)
  \/ Dequeue
  \/ \E s \in DOMAIN tasks : Acquire(s)
  \/ \E s \in DOMAIN tasks : SpawnOk(s)
  \/ \E s \in DOMAIN tasks, out \in OutputsBus : ChildExit(s, 0, out)
  \/ \E s \in DOMAIN tasks : HandlerReturns(s, FALSE)

SpecArgs == Init /\ [][NextArgs]_vars

\* ---- properties ----

TypeOK == \A s \in DOMAIN tasks : tasks[s].pc \in {"created", "spawn", "communicate", "backoff", "emit", "done"}

\* executions inside "async with _semaphore": token acquired, not yet released
Holders == { s \in DOMAIN tasks : tasks[s].pc \in {"spawn", "communicate", "backoff", "emit"} }

\* C1: in every reachable state at most MAX_CONCURRENT_TASKS executions have
\* acquired the gate semaphore and not yet released it
C1_GateBound == Cardinality(Holders) <= MAX_CONCURRENT_TASKS

\* the gate is full and a further execution waits for a token
C1_Witness ==
  /\ Cardinality(Holders) = MAX_CONCURRENT_TASKS
  /\ \E s \in DOMAIN tasks : tasks[s].pc = "created"

\* C2: in every reachable state the number of task_ids whose in-memory status
\* is 'running', the value of get_active_task_count(), is at most
\* MAX_CONCURRENT_TASKS
C2_ActiveCountBound == get_active_task_count <= MAX_CONCURRENT_TASKS

\* the submissions (first attempts) made so far, by their place in submitted
Roots == { c \in 1..Len(submitted) : submitted[c].root = c }

\* the executions of a submission and its retries that have started
Attempts(c) == { s \in DOMAIN tasks : tasks[s].item.root = c /\ tasks[s].pc # "created" }

\* task_error events emitted for a submission or one of its retries
ErrorsOf(c) == { e \in emitted : e.type = "task_error" /\ submitted[e.seq].root = c }

\* nothing of the submission is queued, waiting or running
ChainIdle(c) ==
  /\ \A i \in 1..Len(TASK_QUEUE) : TASK_QUEUE[i].root # c
  /\ \A s \in DOMAIN tasks : tasks[s].item.root = c => tasks[s].pc = "done"

\* every attempt made so far that has ended ended with a non-zero exit
OnlyNonZeroExits(c) == \A s \in Attempts(c) : tasks[s].outcome \in {"none", "exit"}

\* C3: a submission with retries_left = r whose child exits non-zero on every
\* attempt is executed r+1 times in all and gets exactly one task_error,
\* emitted in the last attempt and not before
C3_RetryCount ==
  \A c \in Roots :
    LET r == submitted[c].retries_left IN
    OnlyNonZeroExits(c) =>
      /\ Cardinality(Attempts(c)) <= r + 1
      /\ Cardinality(ErrorsOf(c)) <= 1
      /\ ErrorsOf(c) # {} =>
           /\ Cardinality(Attempts(c)) = r + 1
           /\ \A s \in Attempts(c) : tasks[s].outcome = "exit"
           /\ \A e \in ErrorsOf(c) : submitted[e.seq].retries_left = 0
      /\ ChainIdle(c) =>
           /\ Cardinality(Attempts(c)) = r + 1
           /\ Cardinality(ErrorsOf(c)) = 1

\* a submission with retries_left = 2 has failed three times and is over, and
\* one with retries_left = 0 has not been retried
C3_Witness ==
  \E c \in Roots :
    /\ submitted[c].retries_left = 2
    /\ ChainIdle(c)
    /\ \A s \in Attempts(c) : tasks[s].outcome = "exit"
    /\ Cardinality(Attempts(c)) = 3
    /\ Cardinality(ErrorsOf(c)) = 1

\* C4: an execution whose child is still running when TASK_TIMEOUT_SEC has
\* passed is abandoned with a timeout error: it leaves the wait for its child
\* only into failure handling with outcome timeout
C4_DeadlineAbandons ==
  [][\A s \in DOMAIN tasks :
       (tasks[s].pc = "communicate" /\ tasks[s].overdue /\ tasks'[s].pc # "communicate")
         => tasks'[s].outcome = "timeout"]_vars

\* executions whose child has exited 0 with at least one KEY:VALUE line
Succeeded == { s \in DOMAIN tasks : tasks[s].outcome = "result" }

\* task_result events emitted by an execution
ResultsOf(s) == { e \in emitted : e.type = "task_result" /\ e.seq = s }

\* the keys of the payload that the executor sets itself (lines 185-188)
CoreKeys == { <<"task_id">>, <<"user_id">> }

\* C5 as stated: an execution whose child exits 0 and prints at least one
\* KEY:VALUE line emits exactly one task_result, whose payload has every
\* parsed key with its parsed value and the task_id enqueue_script returned
C5_ResultPayload ==
  \A s \in Succeeded :
    LET parsed == _parse_script_output(tasks[s].stdout) IN
    /\ Cardinality(ResultsOf(s)) = 1
    /\ \A e \in ResultsOf(s) :
         /\ \A k \in DOMAIN parsed : k \in DOMAIN e.payload /\ e.payload[k] = parsed[k]
         /\ <<"task_id">> \in DOMAIN e.payload
         /\ e.payload[<<"task_id">>] = submitted[s].task_id

\* C5 as amended: the same for every parsed key other than task_id and
\* user_id, which carry the executor's values
C5_ResultPayloadAmended ==
  \A s \in Succeeded :
    LET parsed == _parse_script_output(tasks[s].stdout) IN
    /\ Cardinality(ResultsOf(s)) = 1
    /\ \A e \in ResultsOf(s) :
         /\ \A k \in DOMAIN parsed \ CoreKeys :
              k \in DOMAIN e.payload /\ e.payload[k] = parsed[k]
         /\ <<"task_id">> \in DOMAIN e.payload
         /\ e.payload[<<"task_id">>] = submitted[s].task_id
         /\ <<"user_id">> \in DOMAIN e.payload
         /\ e.payload[<<"user_id">>] = UserIdOf(submitted[s].args)

\* a child has printed its own task_id line next to another pair, and the
\* event is out
C5_Witness ==
  \E s \in Succeeded :
    LET parsed == _parse_script_output(tasks[s].stdout) IN
    /\ <<"task_id">> \in DOMAIN parsed
    /\ <<"K">> \in DOMAIN parsed
    /\ parsed[<<"K">>] = <<"v", ":", "w">>
    /\ ResultsOf(s) # {}
    /\ tasks[s].pc = "done"

\* the calls of asynchronous handlers among the calls of an emit, in call order
RECURSIVE AsyncCalls(_)
AsyncCalls(calls) ==
  IF calls = <<>> THEN <<>>
  ELSE IF Head(calls).kind = "async"
       THEN <<Head(calls).handler>> \o AsyncCalls(Tail(calls))
       ELSE AsyncCalls(Tail(calls))

\* C6: one emit_event calls each of the N asynchronous handlers of the type
\* exactly once, in subscription order, also after a handler has raised:
\* while the emit runs the calls made are the first handlers of the list, up
\* to the one awaited, and when it has returned they are the whole list
C6_AllHandlersInOrder ==
  \A s \in DOMAIN tasks :
    LET t == tasks[s]
        called == AsyncCalls(t.calls)
        subscribed == async_handlers[t.etype]
    IN t.etype # "none" =>
         /\ Len(called) <= Len(subscribed)
         /\ called = SubSeq(subscribed, 1, Len(called))
         /\ (t.pc = "emit" /\ t.hk.kind = "async") => Len(called) = t.hk.i
         /\ t.pc = "done" => called = subscribed

\* the first of two asynchronous handlers has raised and the second is running
C6_Witness ==
  \E s \in DOMAIN tasks : \E k \in tasks[s].raised :
    /\ tasks[s].pc = "emit"
    /\ k >= 1 /\ k < Len(tasks[s].calls)
    /\ tasks[s].calls[k].kind = "async"
    /\ tasks[s].calls[k + 1].kind = "async"

\* the status an attempt ends with after its event
TerminalStatus(event_type) == IF event_type = "task_result" THEN "finished" ELSE "failed"

\* C7: whatever handlers of task_result / task_error raise, emit_event
\* returns, the attempt reaches its terminal status, its durable record is
\* updated to it and its gate token is released
C7_HandlerFailureIsolated ==
  /\ \A s \in DOMAIN tasks :
       LET t == tasks[s] IN
       (t.pc = "done" /\ t.raised # {}) =>
         /\ TASK_STATUS[t.item.task_id] = TerminalStatus(t.etype)
         /\ t.item.task_id \in DOMAIN task_log
         /\ task_log[t.item.task_id].status = TerminalStatus(t.etype)
         /\ task_log[t.item.task_id].finishes = 1
  /\ semaphore # 0 => sem_value[semaphore] + Cardinality(Holders) = MAX_CONCURRENT_TASKS

\* an attempt is over whose task_result dispatch went through a synchronous and
\* an asynchronous handler with one of them raising, and another whose
\* task_error dispatch had a handler raise
C7_Witness ==
  /\ \E s \in DOMAIN tasks :
       /\ tasks[s].pc = "done" /\ tasks[s].raised # {}
       /\ tasks[s].etype = "task_result"
       /\ Len(tasks[s].calls) >= 2
       /\ tasks[s].calls[1].kind = "sync"
  /\ \E s \in DOMAIN tasks :
       /\ tasks[s].pc = "done" /\ tasks[s].raised # {}
       /\ tasks[s].etype = "task_error"

\* C8: enqueue_script is enabled in every state, whatever the queue depth,
\* the number of running tasks and the number of free gate tokens (the bound
\* of the model on the number of calls aside)
C8_EnqueueNeverBlocks ==
  \A p \in ScriptPaths, a \in ArgLists :
    Reserved(submitted) + 1 <= MaxTasks => ENABLED Enqueue(MaxTasks, p, a, 0, 1)

\* a call of enqueue_script has gone through while no gate token was free, and
\* its descriptor is queued behind a full gate
C8_Witness ==
  /\ enq_at_full
  /\ semaphore # 0 /\ sem_value[semaphore] = 0
  /\ TASK_QUEUE # <<>>
  /\ Cardinality(Holders) = MAX_CONCURRENT_TASKS

\* C9: descriptors leave the queue in the order of their enqueue_script
\* calls, and their executions are launched in that order: the k-th
\* descriptor dequeued is the k-th enqueued
C9_Fifo ==
  /\ \A k \in 1..Len(dequeued) : dequeued[k] = k
  /\ DOMAIN tasks = Range(dequeued)
  /\ \A i \in 1..Len(TASK_QUEUE) : TASK_QUEUE[i].seq = Len(dequeued) + i

\* two descriptors wait in the queue after an earlier one has been taken
C9_Witness == Len(dequeued) >= 1 /\ Len(TASK_QUEUE) >= 2

\* C10: the token an execution acquired before it spawned its child is
\* released on every exit path, once: free tokens and executions in flight
\* add up to MAX_CONCURRENT_TASKS, so with no execution in flight all tokens
\* are free
C10_TokenAccounting ==
  semaphore # 0 =>
    /\ sem_value[semaphore] + Cardinality(Holders) = MAX_CONCURRENT_TASKS
    /\ Holders = {} => sem_value[semaphore] = MAX_CONCURRENT_TASKS
    /\ \A s \in DOMAIN tasks : tasks[s].pc = "created" => tasks[s].outcome = "none"

\* executions have ended by a spawn timeout, a spawn error and a non-zero
\* exit, and none is in flight
C10_Witness ==
  /\ Holders = {}
  /\ semaphore # 0 /\ sem_value[semaphore] = MAX_CONCURRENT_TASKS
  /\ \E s \in DOMAIN tasks : tasks[s].pc = "done" /\ tasks[s].outcome = "timeout"
  /\ \E s \in DOMAIN tasks : tasks[s].pc = "done" /\ tasks[s].outcome = "spawn_error"
  /\ \E s \in DOMAIN tasks : tasks[s].pc = "done" /\ tasks[s].outcome \in {"exit", "result", "empty"}

\* the status changes of one attempt
StatusSteps == { <<"pending", "running">>, <<"running", "finished">>,
                 <<"running", "failed">> }

\* C11: for every task_id the in-memory status changes only along
\* pending -> running -> finished or failed: no step leaves a terminal status,
\* goes from running back to pending or from pending to a terminal status
C11_StatusMonotonic ==
  [][\A id \in DOMAIN TASK_STATUS :
       TASK_STATUS'[id] # TASK_STATUS[id] =>
         <<TASK_STATUS[id], TASK_STATUS'[id]>> \in StatusSteps]_vars

\* C14: any two calls of enqueue_script return different task_ids
C14_UniqueIds ==
  \A i, j \in 1..Len(submitted) :
    i # j => submitted[i].task_id # submitted[j].task_id

\* the attempts of a task_id that are queued, wait for the gate or have a
\* child that has not exited
InFlight(id) ==
  \/ \E i \in 1..Len(TASK_QUEUE) : TASK_QUEUE[i].task_id = id
  \/ \E s \in DOMAIN tasks :
       tasks[s].item.task_id = id /\ tasks[s].pc \in {"created", "spawn", "communicate"}

\* C20: the durable record of a task_id is there from the submission on and
\* is updated at most once afterwards, and not while an attempt of the id is
\* pending or its child is running
C20_WriteOnce ==
  /\ \A i \in 1..Len(submitted) : submitted[i].task_id \in DOMAIN task_log
  /\ \A id \in DOMAIN task_log :
       /\ task_log[id].finishes <= 1
       /\ task_log[id].finishes >= 1 => ~InFlight(id)

\* attempts whose execution has failed: spawn error, timeout or non-zero exit
Failed == { s \in DOMAIN tasks : tasks[s].outcome \in {"spawn_error", "timeout", "exit"} }

\* C12: an attempt whose execution has failed has the in-memory status
\* 'failed' once its failure handling is over, with or without retries left
C12_FailedEndsFailed ==
  \A s \in Failed :
    tasks[s].pc = "done" => TASK_STATUS[tasks[s].item.task_id] = "failed"

\* the descriptors enqueued after an attempt for the same submission
Later(s) == { k \in 1..Len(submitted) : k > s /\ submitted[k].root = submitted[s].root }

\* the first of a non-empty set of descriptors
First(ks) == CHOOSE k \in ks : \A j \in ks : k <= j

\* C13: a failed attempt with retries_left = r > 0 gets exactly one new
\* descriptor, with the same script_path and args, retries_left = r - 1 and
\* another task_id, enqueued when the back-off is over; one with r = 0 gets
\* none; the id of the failed attempt is not queued again and not pending
C13_RetryDescriptor ==
  \A s \in Failed :
    LET it == tasks[s].item IN
    /\ (tasks[s].pc = "done" /\ it.retries_left > 0) =>
         /\ Later(s) # {}
         /\ LET k == First(Later(s)) IN
              /\ submitted[k].script_path = it.script_path
              /\ submitted[k].args = it.args
              /\ submitted[k].retries_left = it.retries_left - 1
              /\ submitted[k].task_id # it.task_id
         /\ Cardinality({ k \in Later(s) :
                            submitted[k].retries_left >= it.retries_left - 1 }) = 1
    /\ (tasks[s].pc # "done" \/ it.retries_left = 0) => Later(s) = {}
    /\ \A k \in 1..Len(submitted) : k # s => submitted[k].task_id # it.task_id
    /\ \A i \in 1..Len(TASK_QUEUE) : TASK_QUEUE[i].task_id # it.task_id
    /\ TASK_STATUS[it.task_id] # "pending"

\* a retry has failed in its turn and has been retried, and another failed
\* attempt is in its back-off with nothing enqueued for it yet
C13_Witness ==
  \E s \in Failed :
    /\ tasks[s].pc = "done"
    /\ submitted[s].root # s
    /\ tasks[s].item.retries_left = 1
    /\ Later(s) # {}
    /\ submitted[First(Later(s))].retries_left = 0

\* attempts whose child has exited 0 without a KEY:VALUE line in its output
Empty == { s \in DOMAIN tasks : tasks[s].outcome = "empty" }

NoDataText == "no data"

\* C16: a task whose script exits 0 and prints nothing produces exactly one
\* task_result event, with EVENT_TYPE task_result, RESULT_TYPE text and a
\* MESSAGE that says there is no data
C16_EmptyOutputEvent ==
  \A s \in Empty :
    (tasks[s].stdout = <<>> /\ tasks[s].pc = "done") =>
      /\ Cardinality(ResultsOf(s)) = 1
      /\ \A e \in ResultsOf(s) :
           /\ {<<"EVENT_TYPE">>, <<"RESULT_TYPE">>, <<"MESSAGE">>} \subseteq DOMAIN e.payload
           /\ e.payload[<<"EVENT_TYPE">>] = <<"task_result">>
           /\ e.payload[<<"RESULT_TYPE">>] = <<"text">>
           /\ NoDataText \in Range(e.payload[<<"MESSAGE">>])

\* submissions whose first attempt exited non-zero and whose retry exited 0
\* with a KEY:VALUE line
RetrySucceeded ==
  { c \in Roots : /\ c \in DOMAIN tasks /\ tasks[c].outcome = "exit"
                   /\ Later(c) # {}
                   /\ First(Later(c)) \in Succeeded }

\* task_result events emitted for a submission or one of its retries
ResultsOfChain(c) == { e \in emitted : e.type = "task_result" /\ submitted[e.seq].root = c }

\* C19: a submission whose first attempt exits non-zero and whose retry exits
\* 0 with KEY:VALUE output gets exactly one task_result, carrying the output
\* of the second run, no task_error, and no attempt after the success
C19_RetryThenSuccess ==
  \A c \in RetrySucceeded :
    LET k == First(Later(c)) IN
    /\ ErrorsOf(c) = {}
    /\ Later(c) = {k}
    /\ Cardinality(ResultsOfChain(c)) = 1
    /\ \A e \in ResultsOfChain(c) :
         /\ e.seq = k
         /\ e.payload = ResultPayload(submitted[k], _parse_script_output(tasks[k].stdout))

\* the retry of a failed first attempt has succeeded with a retry still left,
\* and nothing of the submission is queued or running any more
C19_Witness ==
  \E c \in RetrySucceeded :
    /\ ChainIdle(c)
    /\ submitted[c].retries_left = 2
    /\ tasks[First(Later(c))].stdout # <<>>

\* the execution of the k-th descriptor has started: _execute_task has been
\* entered under the gate
Started(k) == k \in DOMAIN tasks /\ tasks[k].pc # "created"

\* the execution of the k-th descriptor is over
Executed(k) == k \in DOMAIN tasks /\ tasks[k].pc = "done"

\* C17: a task submitted with enqueue_script is eventually executed also
\* when init_process_manager() is never called
C17_RunsWithoutInit ==
  [](loops = 0) => \A k \in 1..MaxTasksLive : (Len(submitted) >= k) ~> Executed(k)

\* C18: once the consumer loop runs, every descriptor enqueued is eventually
\* dequeued and its execution started, whatever the outcomes of the tasks,
\* provided each child terminates or exceeds its deadline
C18_QueueDrains ==
  \A k \in 1..MaxTasksLive : (loops > 0 /\ Len(submitted) >= k) ~> Started(k)

\* C21: while a handler of task_result is being invoked the in-memory status
\* of the task is already 'finished', while one of task_error is being
\* invoked it is already 'failed', and the durable record says the same
C21_StatusBeforeEvent ==
  \A s \in DOMAIN tasks :
    tasks[s].pc = "emit" =>
      /\ TASK_STATUS[tasks[s].item.task_id] = TerminalStatus(tasks[s].etype)
      /\ task_log[tasks[s].item.task_id].status = TerminalStatus(tasks[s].etype)

\* the test of a line as the claim states it: a colon, and no "[" and no
\* whitespace at the start
IsCandidateByClaim(line) ==
  /\ ":" \in Range(line)
  /\ ~(line # <<>> /\ line[1] = "[")
  /\ ~(line # <<>> /\ IsSpace(line[1]))

RECURSIVE ParseByClaim(_, _)
ParseByClaim(parsed, lines) ==
  IF lines = <<>> THEN parsed
  ELSE LET line == Head(lines) IN
       IF IsCandidateByClaim(line)
       THEN LET c == FirstColon(line)
                key == Strip(SubSeq(line, 1, c - 1))
                value == Strip(SubSeq(line, c + 1, Len(line)))
            IN ParseByClaim((key :> value) @@ parsed, Tail(lines))
       ELSE ParseByClaim(parsed, Tail(lines))

\* C25: for every output a child has printed, _parse_script_output returns
\* the map of the lines that have a colon and start neither with "[" nor
\* with a space or a tab, split at the first colon, both sides trimmed, a
\* later line overwriting an earlier one with the same key
C25_ParseAsStated ==
  \A s \in DOMAIN tasks :
    _parse_script_output(tasks[s].stdout) = ParseByClaim(EmptyDict, tasks[s].stdout)

\* C26: the task_error event of a task submitted with the user id as its
\* only argument carries USER_ID equal to that argument, EVENT_TYPE
\* task_error and an ERROR_MESSAGE, and a submission that has failed for
\* good has exactly one such event
C26_ErrorNamesUser ==
  /\ \A e \in emitted :
       e.type = "task_error" =>
         /\ {<<"USER_ID">>, <<"EVENT_TYPE">>, <<"ERROR_MESSAGE">>} \subseteq DOMAIN e.payload
         /\ e.payload[<<"USER_ID">>] = submitted[e.seq].args[1]
         /\ e.payload[<<"EVENT_TYPE">>] = <<"task_error">>
  /\ \A s \in Failed :
       (tasks[s].pc = "done" /\ tasks[s].item.retries_left = 0) =>
         Cardinality(ErrorsOf(submitted[s].root)) = 1

\* C29: once the execution of an attempt has ended, its durable record and
\* the in-memory status of its task_id say the same, and no durable record
\* says 'failed' while the in-memory status says 'running'
C29_LogMirrorsStatus ==
  /\ \A s \in DOMAIN tasks :
       tasks[s].pc = "done" =>
         task_log[tasks[s].item.task_id].status = TASK_STATUS[tasks[s].item.task_id]
  /\ \A id \in DOMAIN task_log :
       ~(task_log[id].status = "failed" /\ TASK_STATUS[id] = "running")

\* C30: every descriptor in the queue has the in-memory status 'pending', a
\* _TASK_RETRIES entry equal to its retries_left and a durable start record
\* that no finish has touched
C30_QueuedIsPending ==
  \A i \in 1..Len(TASK_QUEUE) :
    LET it == TASK_QUEUE[i] IN
    /\ it.task_id \in DOMAIN TASK_STATUS /\ TASK_STATUS[it.task_id] = "pending"
    /\ it.task_id \in DOMAIN TASK_RETRIES /\ TASK_RETRIES[it.task_id] = it.retries_left
    /\ it.task_id \in DOMAIN task_log /\ task_log[it.task_id].finishes = 0

\* attempts in whose failure handling a step has raised
HandlingRaised == { s \in DOMAIN tasks : tasks[s].fault \in {"persist", "sleep", "enqueue"} }

C28_ExecutorContainsFailures ==
  \A s \in DOMAIN tasks :
    (tasks[s].fault \in {"communicate", "finish"} /\ tasks[s].pc = "done") =>
      /\ tasks[s].exc # "escaped"
      /\ TASK_STATUS[tasks[s].item.task_id] \in {"finished", "failed"}

\* C22: emit_event_sync calls the synchronous handlers of the type, each
\* once and in subscription order, also after one of them has raised, calls
\* no asynchronous handler, leaves both registries as they were and lets no
\* exception out
C22_EmitSyncOnlySync ==
  bus_call.op = "emit_event_sync" =>
    LET subscribed == bus_call.before[1][bus_call.type] IN
    /\ Len(bus_call.calls) = Len(subscribed)
    /\ \A i \in 1..Len(subscribed) :
         /\ bus_call.calls[i].kind = "sync"
         /\ bus_call.calls[i].handler = subscribed[i]
    /\ <<sync_handlers, async_handlers>> = bus_call.before
    /\ ~bus_call.escaped

\* emit_event_sync has run with two different synchronous handlers of which
\* the first raised, and with an asynchronous handler subscribed to the type
C22_Witness ==
  /\ bus_call.op = "emit_event_sync"
  /\ Len(bus_call.calls) = 2
  /\ bus_call.calls[1].handler # bus_call.calls[2].handler
  /\ bus_call.raised = {1}
  /\ async_handlers[bus_call.type] # <<>>

\* the calls one emit_event makes when every handler of the type is called
ExpectedCalls(event_type) ==
  CallsOfList("sync", sync_handlers[event_type])
    \o CallsOfList("async", async_handlers[event_type])

\* C23: within one emit_event the synchronous handlers of the type are
\* called in subscription order before the first asynchronous one, a handler
\* is called only when the one before it has returned or raised, and no
\* handler of another type is called: the calls made so far are the first of
\* the expected calls, and the handler awaited is the last of them
C23_SyncThenAsyncInTurn ==
  \A s \in DOMAIN tasks :
    LET t == tasks[s] IN
    t.etype # "none" =>
      /\ Len(t.calls) <= Len(ExpectedCalls(t.etype))
      /\ t.calls = SubSeq(ExpectedCalls(t.etype), 1, Len(t.calls))
      /\ t.pc = "emit" => (t.calls # <<>> /\ t.calls[Len(t.calls)] = CallOf(t.etype, t.hk))
      /\ t.pc = "done" => t.calls = ExpectedCalls(t.etype)
      /\ \A i \in 1..Len(t.calls) :
           /\ t.calls[i].kind = "sync" =>
                t.calls[i].handler \notin Range(sync_handlers[OtherType(t.etype)])
           /\ t.calls[i].kind = "async" =>
                t.calls[i].handler \notin Range(async_handlers[OtherType(t.etype)])

\* the synchronous handler of the type has raised and its asynchronous
\* handler is being awaited
C23_Witness ==
  \E s \in DOMAIN tasks :
    /\ tasks[s].pc = "emit"
    /\ Len(tasks[s].calls) = 2
    /\ tasks[s].calls[1].kind = "sync"
    /\ tasks[s].calls[2].kind = "async"
    /\ 1 \in tasks[s].raised

\* the subscriptions of a handler in a list
Count(list, handler) == Len(SelectSeq(list, LAMBDA h : h = handler))

\* a list without a handler
Without(list, handler) == SelectSeq(list, LAMBDA h : h # handler)

\* what every unsubscribe_async leaves alone: the other handlers of the type
\* in their order, the other type, the synchronous handlers; and a handler
\* that is not subscribed changes nothing and raises nothing
UnsubscribeFrame ==
  LET t == bus_call.type
      h == bus_call.handler
      before == bus_call.before[2]
  IN /\ Without(async_handlers[t], h) = Without(before[t], h)
     /\ async_handlers[OtherType(t)] = before[OtherType(t)]
     /\ sync_handlers = bus_call.before[1]
     /\ h \notin Range(before[t]) => async_handlers = before
     /\ ~bus_call.escaped

EventsOfChain(c) == { e \in emitted : submitted[e.seq].root = c }

\* C31: for a submission and its retries at most one event is ever emitted,
\* a task_result or a task_error and never both; the attempt that emits it
\* is the last of the chain: every other attempt is over, none is queued and
\* none is enqueued after it
C31_OneTerminalEvent ==
  \A c \in Roots :
    /\ Cardinality(EventsOfChain(c)) <= 1
    /\ \A e \in EventsOfChain(c) :
         /\ e.type \in EventTypes
         /\ Later(e.seq) = {}
         /\ \A i \in 1..Len(TASK_QUEUE) : TASK_QUEUE[i].root # c
         /\ \A s \in DOMAIN tasks :
              (tasks[s].item.root = c /\ s # e.seq) => tasks[s].pc = "done"

\* a submission has got its task_error in its second attempt, another its
\* task_result, and both are over
C31_Witness ==
  /\ \E c \in Roots :
       /\ Cardinality(Attempts(c)) = 2
       /\ ChainIdle(c)
       /\ \E e \in EventsOfChain(c) : e.type = "task_error" /\ e.seq # c
  /\ \E c \in Roots :
       /\ ChainIdle(c)
       /\ \E e \in EventsOfChain(c) : e.type = "task_result"

\* executions that wait in the back-off sleep or for a handler
Lingering == { s \in DOMAIN tasks : tasks[s].pc \in {"backoff", "emit"} }

\* C32: an attempt holds its gate token for the whole of _execute_task: the
\* tokens out are those of the executions between acquire and end, back-off
\* and dispatch included; an execution that has given its token back has had
\* every handler of its event return and, if it failed with retries left,
\* has its retry descriptor enqueued; and with MAX_CONCURRENT_TASKS
\* executions in back-off or in handlers no waiting execution can start
C32_TokenHeldToTheEnd ==
  /\ semaphore # 0 =>
       sem_value[semaphore] = MAX_CONCURRENT_TASKS - Cardinality(Holders)
  /\ \A s \in DOMAIN tasks :
       tasks[s].pc = "done" =>
         /\ tasks[s].etype # "none" => tasks[s].calls = ExpectedCalls(tasks[s].etype)
         /\ (s \in Failed /\ tasks[s].item.retries_left > 0) =>
              \E k \in Later(s) : submitted[k].retries_left = tasks[s].item.retries_left - 1
  /\ \A s \in Lingering : tasks[s].item.retries_left > 0 => Later(s) = {}
  /\ Cardinality(Lingering) = MAX_CONCURRENT_TASKS =>
       \A s \in DOMAIN tasks : tasks[s].pc = "created" => ~ENABLED Acquire(s)

\* MAX_CONCURRENT_TASKS executions wait in back-off or for their handlers,
\* one of them for a handler, while a further execution waits for a token
C32_Witness ==
  /\ Cardinality(Lingering) = MAX_CONCURRENT_TASKS
  /\ \E s \in Lingering : tasks[s].pc = "emit"
  /\ \E s \in DOMAIN tasks : tasks[s].pc = "created"

\* executions whose child has been started and has not exited
Children == { s \in DOMAIN tasks : tasks[s].pc = "communicate" }

\* C33: also when init_process_manager is called again, with executions in
\* flight or not, at most MAX_CONCURRENT_TASKS children run at a time, and
\* every descriptor taken from the queue is taken once and has one execution
C33_ReinitKeepsGate ==
  /\ Cardinality(Children) <= MAX_CONCURRENT_TASKS
  /\ \A i, j \in 1..Len(dequeued) : i # j => dequeued[i] # dequeued[j]
  /\ DOMAIN tasks = Range(dequeued)
  /\ \A i \in 1..Len(TASK_QUEUE) : TASK_QUEUE[i].seq \notin Range(dequeued)

\* a list in which no handler stands twice
NoDuplicates(list) == \A i, j \in 1..Len(list) : i # j => list[i] # list[j]

\* C34: an emit_event that finds each of its asynchronous handlers subscribed
\* once calls each of them exactly once and no handler twice, whatever
\* subscribe_async and unsubscribe_async calls for the type and whatever
\* other emit_event run while it waits for a handler
C34_StableDispatch ==
  \A s \in DOMAIN tasks :
    LET t == tasks[s]
        called == AsyncCalls(t.calls)
    IN (t.etype # "none" /\ NoDuplicates(t.at_start)) =>
         /\ NoDuplicates(called)
         /\ t.pc = "done" => Range(t.at_start) \subseteq Range(called)

\* C35: in every task_result payload task_id is the id of the attempt that
\* emitted it and user_id is the third argument of that attempt, None with
\* fewer than three arguments, whatever the child printed under these two
\* keys; every other parsed key is there with the child's value, and no
\* other key
C35_CoreKeysOverwrite ==
  \A e \in emitted :
    e.type = "task_result" =>
      LET it == submitted[e.seq]
          parsed == _parse_script_output(tasks[e.seq].stdout)
      IN /\ DOMAIN e.payload = DOMAIN parsed \cup CoreKeys
         /\ e.payload[<<"task_id">>] = it.task_id
         /\ Len(it.args) >= 3 => e.payload[<<"user_id">>] = it.args[3]
         /\ Len(it.args) < 3 => e.payload[<<"user_id">>] = None
         /\ \A k \in DOMAIN parsed \ CoreKeys : e.payload[k] = parsed[k]

\* a child started with three arguments and one started with one argument
\* have both printed a task_id and a user_id line of their own next to
\* another pair, and their events are out
C35_Witness ==
  /\ \E e \in emitted :
       /\ e.type = "task_result"
       /\ Len(submitted[e.seq].args) = 3
       /\ CoreKeys \subseteq DOMAIN _parse_script_output(tasks[e.seq].stdout)
       /\ <<"K">> \in DOMAIN e.payload
  /\ \E e \in emitted :
       /\ e.type = "task_result"
       /\ Len(submitted[e.seq].args) = 1
       /\ CoreKeys \subseteq DOMAIN _parse_script_output(tasks[e.seq].stdout)
====
